---- MODULE Spec2Model ----
(***************************************************************************)
(* COSMEON FS-Lite (src/server.js): a chunked file store over four        *)
(* simulated nodes.  The durable state is the per-node status.json files, *)
(* the chunk payload files under each node's directory, metadata.json     *)
(* (the catalog) and the reconstructed outputs in the uploads directory.  *)
(* Every request handler is an async function; it is modelled as a chain  *)
(* of steps, one per await that touches shared files, so that handlers    *)
(* interleave exactly where the event loop lets them.                      *)
(*                                                                         *)
(* Scaling: CHUNK_SIZE is 1024 * 1024 in the source; the model keeps the  *)
(* arithmetic and scales the value so that files of a few bytes span      *)
(* several chunks.  SHA-256 is modelled as a collision-free digest.  A    *)
(* write of a file is taken as one step: a reader sees the old content or *)
(* the new one.  The handlers' calls of logEvent are left out of their   *)
(* steps; the event log is followed in a specification of its own.         *)
(***************************************************************************)
EXTENDS Integers, Sequences, FiniteSets, TLC

\* ------------------------------------------------------------ configuration

CHUNK_SIZE == 2

NODES == <<"node1", "node2", "node3", "node4">>

\* 'Keep only last 100 logs': the cap of global.systemLogs, scaled like
\* CHUNK_SIZE.
MaxSystemLogs == 3

\* ------------------------------------------------------------------ bounds

MaxLen == 3        \* longest uploaded file, in bytes
MaxLenPair == 3    \* longest file when two uploads run concurrently
MaxUploads == 2    \* upload requests served (each gets a fresh fileId)
MaxTime == 1       \* clock values 0..MaxTime
MaxDamage == 1     \* chunk payload files the environment deletes or alters
NumTogglers == 2   \* toggle requests that may be in flight together
MaxLenPlace == 9   \* longest file when the placement of the chunks is followed
MaxEvents == 5     \* events logged in the runs that follow the event log

Byte == 0 .. 1
FileIds == 1 .. MaxUploads
NoNode == "null"        \* assignedNode = null
Undefined == <<-1>>     \* a hole of the sparse chunks array (no Buffer is <<-1>>)

NodeIds == {NODES[k] : k \in 1 .. Len(NODES)}

RECURSIVE SeqsUpTo(_)
SeqsUpTo(n) ==
    IF n = 0 THEN {<<>>}
    ELSE LET s == SeqsUpTo(n - 1)
         IN  s \cup {Append(x, b) : x \in {y \in s : Len(y) = n - 1}, b \in Byte}

Min(a, b) == IF a < b THEN a ELSE b

\* ----------------------------------------------------------- pure helpers

\* crypto SHA-256 as a collision-free digest: the bytes read as a binary
\* numeral (least significant first) under a leading 1.
RECURSIVE generateHash(_)
generateHash(data) ==
    IF data = <<>> THEN 1 ELSE Head(data) + 2 * generateHash(Tail(data))

\* Faulty variant: the quotient is rounded down.
totalChunksFloor(len) == len \div CHUNK_SIZE

\* Math.ceil(fileBuffer.length / CHUNK_SIZE)
totalChunksOf(len) == (len + CHUNK_SIZE - 1) \div CHUNK_SIZE

\* Faulty variant: the slice stops one byte early.
chunkSliceShort(fileBuffer, i) ==
    LET start == i * CHUNK_SIZE
        end == Min(start + CHUNK_SIZE, Len(fileBuffer)) - 1
    IN  SubSeq(fileBuffer, start + 1, end)

\* fileBuffer.slice(start, end) for chunk i (0-based offsets)
chunkSlice(fileBuffer, i) ==
    LET start == i * CHUNK_SIZE
        end == Min(start + CHUNK_SIZE, Len(fileBuffer))
    IN  SubSeq(fileBuffer, start + 1, end)

\* Buffer.concat(chunks)
RECURSIVE bufferConcat(_)
bufferConcat(chunks) ==
    IF chunks = <<>> THEN <<>> ELSE Head(chunks) \o bufferConcat(Tail(chunks))

\* ------------------------------------------------------------------- state

VARIABLES
    nodes,      \* nodes/<id>/status.json: nodeId -> {nodeId, status, chunkCount, lastSeen}
    store,      \* nodes/<id>/<fileId>_chunk<i>: nodeId -> (<<fileId, i>> -> bytes), the files that exist
    catalog,    \* metadata.json: metadata.files, fileId -> manifest, the keys that exist
    outputs,    \* uploads/reconstructed_<originalName>: name -> bytes, the files that exist
    now,        \* the wall clock read by new Date()
    up,         \* the upload requests: fileId -> position and locals of the handler
    rc,         \* the reconstruct requests: position and locals of the handler
    tg,         \* the toggle requests: position and locals of the handler
    damage,     \* number of chunk payload files deleted or altered from outside
    last,       \* history: the fileIds a reconstruct has answered with a chunk on an offline node
    dl,         \* the download request served last: its fileId and its response
    systemLogs, \* global.systemLogs: the in-memory event log
    emitted     \* history: every event logged so far, oldest first

vars == <<nodes, store, catalog, outputs, now, up, rc, tg, damage, last,
          dl, systemLogs, emitted>>


\* getNodeStatus: the parsed status.json, or the synthesized offline record
\* when the file cannot be read.
getNodeStatus(nodeId) ==
    IF nodeId \in DOMAIN nodes
    THEN nodes[nodeId]
    ELSE [nodeId |-> nodeId, status |-> "offline", chunkCount |-> 0, lastSeen |-> -1]

\* Faulty variant: the update also counts a chunk.
updateNodeStatusCounting(nodeId, status) ==
    [getNodeStatus(nodeId) EXCEPT !.status = status, !.lastSeen = now,
                                  !.chunkCount = @ + 1]

\* updateNodeStatus up to its write: a fresh read of the record, with status
\* and lastSeen replaced.  chunkCount is whatever the file holds.
updateNodeStatusRecord(nodeId, status) ==
    [getNodeStatus(nodeId) EXCEPT !.status = status, !.lastSeen = now]

\* updateNodeStatus' fs.writeFile(statusFile, ...)
writeStatusFile(nodeId, record) == [nodes EXCEPT ![nodeId] = record]

AllOnline(ns) == \A n \in NodeIds : ns[n].status = "online"

\* ------------------------------------------------------------ upload handler

\* Faulty variant: the file digest is taken over the first chunk only.
EmptyManifestFirstChunk(fileId, originalname, fileBuffer) ==
    [fileId |-> fileId,
     originalName |-> originalname,
     size |-> Len(fileBuffer),
     totalChunks |-> totalChunksOf(Len(fileBuffer)),
     uploadedAt |-> now,
     fileHash |-> generateHash(chunkSlice(fileBuffer, 0)),
     chunks |-> <<>>]

EmptyManifest(fileId, originalname, fileBuffer) ==
    [fileId |-> fileId,
     originalName |-> originalname,
     size |-> Len(fileBuffer),
     totalChunks |-> totalChunksOf(Len(fileBuffer)),
     uploadedAt |-> now,
     fileHash |-> generateHash(fileBuffer),
     chunks |-> <<>>]

\* Faulty variant: every chunk is recorded with the full chunk size.
ChunkRecordFullSize(i, assignedNode, chunkBuffer) ==
    [chunkId |-> i, node |-> assignedNode,
     hash |-> generateHash(chunkBuffer), size |-> CHUNK_SIZE]

\* metadata.files[fileId].chunks[i] = {chunkId, node, hash, size, path}; path
\* is NODES_DIR/node/<fileId>_chunk<i>, a function of the other fields.
ChunkRecord(i, assignedNode, chunkBuffer) ==
    [chunkId |-> i, node |-> assignedNode,
     hash |-> generateHash(chunkBuffer), size |-> Len(chunkBuffer)]

\* let nodeIndex = 0: the cursor with which the scan of every upload starts.
InitialNodeIndex == 0

NoRecord == [nodeId |-> NoNode, status |-> "", chunkCount |-> 0, lastSeen |-> 0]
NoManifest == [fileId |-> 0, originalName |-> "", size |-> 0, totalChunks |-> 0,
               uploadedAt |-> 0, fileHash |-> 0, chunks |-> <<>>]

UpIdle ==
    [pc |-> "idle", name |-> "", buf |-> <<>>, snap |-> <<>>, man |-> NoManifest,
     i |-> 0, nodeIndex |-> InitialNodeIndex, attempt |-> 0, assigned |-> NoNode,
     argStatus |-> "", us |-> NoRecord, error |-> "",
     allOn |-> FALSE, stableOff |-> {}]

\* History kept for the properties: whether every node has been online at
\* every step of the request so far, and which nodes were offline when the
\* request started and have kept that status since.
Watch(r, newNodes) ==
    IF r.pc \in {"idle", "done", "failed"} THEN r
    ELSE [r EXCEPT !.allOn = r.allOn /\ AllOnline(newNodes),
                   !.stableOff = {n \in r.stableOff : newNodes[n].status = nodes[n].status}]

\* The handler has returned: its locals are gone.  The uploaded bytes and
\* the history are kept for the properties.
UpReturn(r, pc, error) ==
    [UpIdle EXCEPT !.pc = pc, !.error = error, !.name = r.name, !.buf = r.buf,
                   !.allOn = r.allOn]

\* History kept for the properties: whether the node statuses and the chunk
\* payloads have stayed as they are since the running reconstruct started.
RcWatch(newNodes) ==
    IF rc.pc \in {"idle", "done"} THEN rc
    ELSE [rc EXCEPT !.steady = rc.steady /\
                        \A n \in NodeIds : newNodes[n].status = nodes[n].status]

\* The request arrives: the staged file is read, the catalog is read
\* (readMetadata) and the manifest is initialised in the local copy.
UploadStart(f, originalname, fileBuffer) ==
    /\ up[f].pc = "idle"
    /\ \A g \in FileIds : g < f => up[g].pc # "idle"
    /\ up' = [up EXCEPT ![f] =
                [UpIdle EXCEPT
                    !.pc = IF totalChunksOf(Len(fileBuffer)) = 0 THEN "save" ELSE "scan",
                    !.name = originalname,
                    !.buf = fileBuffer,
                    !.snap = catalog,
                    !.man = EmptyManifest(f, originalname, fileBuffer),
                    !.allOn = AllOnline(nodes),
                    !.stableOff = {n \in NodeIds : nodes[n].status # "online"}]]
    /\ UNCHANGED <<nodes, store, catalog, outputs, now, rc, tg, damage, last, dl, systemLogs, emitted>>

\* Faulty variant: the status is not looked at.
uploadNodeAny(nodeStatus) == TRUE

\* if (nodeStatus.status === 'online') in the node scan
uploadNodeOnline(nodeStatus) == nodeStatus.status = "online"

\* Faulty variant: on 'No online nodes available' the handler's copy of the
\* metadata, with the manifest as far as it got, is written to metadata.json.
UploadScanPersisting(f) ==
    /\ up[f].pc = "scan"
    /\ LET r == up[f]
           nodeId == NODES[(r.nodeIndex % Len(NODES)) + 1]
           nodeStatus == getNodeStatus(nodeId)
       IN  IF uploadNodeOnline(nodeStatus)
           THEN /\ up' = [up EXCEPT ![f] = [r EXCEPT !.assigned = nodeId,
                                  !.nodeIndex = r.nodeIndex + 1, !.pc = "write"]]
                /\ UNCHANGED catalog
           ELSE IF r.attempt + 1 < Len(NODES)
           THEN /\ up' = [up EXCEPT ![f] = [r EXCEPT !.nodeIndex = r.nodeIndex + 1,
                                                     !.attempt = r.attempt + 1]]
                /\ UNCHANGED catalog
           ELSE /\ up' = [up EXCEPT ![f] =
                            UpReturn(r, "failed", "No online nodes available")]
                /\ catalog' = (f :> r.man) @@ r.snap
    /\ UNCHANGED <<nodes, store, outputs, now, rc, tg, damage, last, dl, systemLogs, emitted>>

\* Faulty variant: the cursor stays on the node that was chosen.
UploadScanSticky(f) ==
    /\ up[f].pc = "scan"
    /\ LET r == up[f]
           nodeId == NODES[(r.nodeIndex % Len(NODES)) + 1]
           nodeStatus == getNodeStatus(nodeId)
       IN  up' = [up EXCEPT ![f] =
                IF uploadNodeOnline(nodeStatus)
                THEN [r EXCEPT !.assigned = nodeId, !.pc = "write"]
                ELSE IF r.attempt + 1 < Len(NODES)
                THEN [r EXCEPT !.nodeIndex = r.nodeIndex + 1, !.attempt = r.attempt + 1]
                ELSE UpReturn(r, "failed", "No online nodes available")]
    /\ UNCHANGED <<nodes, store, catalog, outputs, now, rc, tg, damage, last, dl, systemLogs, emitted>>

\* Faulty variant: when every node has been found offline the scan starts
\* over.
UploadScanRetrying(f) ==
    /\ up[f].pc = "scan"
    /\ LET r == up[f]
           nodeId == NODES[(r.nodeIndex % Len(NODES)) + 1]
           nodeStatus == getNodeStatus(nodeId)
       IN  up' = [up EXCEPT ![f] =
                IF uploadNodeOnline(nodeStatus)
                THEN [r EXCEPT !.assigned = nodeId, !.nodeIndex = r.nodeIndex + 1,
                               !.pc = "write"]
                ELSE IF r.attempt + 1 < Len(NODES)
                THEN [r EXCEPT !.nodeIndex = r.nodeIndex + 1, !.attempt = r.attempt + 1]
                ELSE [r EXCEPT !.nodeIndex = r.nodeIndex - r.attempt, !.attempt = 0]]
    /\ UNCHANGED <<nodes, store, catalog, outputs, now, rc, tg, damage, last, dl, systemLogs, emitted>>

\* One attempt of the node scan: NODES[nodeIndex % NODES.length] is read.
UploadScan(f) ==
    /\ up[f].pc = "scan"
    /\ LET r == up[f]
           nodeId == NODES[(r.nodeIndex % Len(NODES)) + 1]
           nodeStatus == getNodeStatus(nodeId)
       IN  up' = [up EXCEPT ![f] =
                IF uploadNodeOnline(nodeStatus)
                THEN [r EXCEPT !.assigned = nodeId, !.nodeIndex = r.nodeIndex + 1,
                               !.pc = "write"]
                ELSE IF r.attempt + 1 < Len(NODES)
                THEN [r EXCEPT !.nodeIndex = r.nodeIndex + 1, !.attempt = r.attempt + 1]
                ELSE UpReturn(r, "failed", "No online nodes available")]
    /\ UNCHANGED <<nodes, store, catalog, outputs, now, rc, tg, damage, last, dl, systemLogs, emitted>>

\* fs.writeFile(chunkPath, chunkBuffer)
UploadWriteChunk(f) ==
    /\ up[f].pc = "write"
    /\ LET r == up[f]
       IN  /\ store' = [store EXCEPT ![r.assigned] =
                            (<<f, r.i>> :> chunkSlice(r.buf, r.i)) @@ store[r.assigned]]
           /\ up' = [up EXCEPT ![f] = [r EXCEPT !.pc = "count"]]
    /\ UNCHANGED <<nodes, catalog, outputs, now, rc, tg, damage, last, dl, systemLogs, emitted>>

\* const nodeStatus = await getNodeStatus(assignedNode); nodeStatus.chunkCount++
\* The increment is made on the handler's own copy of the record; only
\* nodeStatus.status is passed on to updateNodeStatus.
UploadCount(f) ==
    /\ up[f].pc = "count"
    /\ up' = [up EXCEPT ![f] = [up[f] EXCEPT
                !.argStatus = getNodeStatus(up[f].assigned).status,
                !.pc = "updRead"]]
    /\ UNCHANGED <<nodes, store, catalog, outputs, now, rc, tg, damage, last, dl, systemLogs, emitted>>

\* updateNodeStatus(assignedNode, nodeStatus.status): its getNodeStatus
UploadUpdRead(f) ==
    /\ up[f].pc = "updRead"
    /\ up' = [up EXCEPT ![f] = [up[f] EXCEPT
                !.us = updateNodeStatusRecord(up[f].assigned, up[f].argStatus),
                !.pc = "updWrite"]]
    /\ UNCHANGED <<nodes, store, catalog, outputs, now, rc, tg, damage, last, dl, systemLogs, emitted>>

\* updateNodeStatus' write, then metadata.files[fileId].chunks[i] = {...} in
\* the local copy, and the loop goes on to chunk i + 1.
UploadUpdWrite(f) ==
    /\ up[f].pc = "updWrite"
    /\ LET r == up[f]
           newNodes == writeStatusFile(r.assigned, r.us)
           chunkBuffer == chunkSlice(r.buf, r.i)
           done == [r EXCEPT
                      !.man.chunks = Append(r.man.chunks,
                                            ChunkRecord(r.i, r.assigned, chunkBuffer)),
                      !.i = r.i + 1, !.attempt = 0, !.assigned = NoNode,
                      !.argStatus = "", !.us = NoRecord,
                      !.pc = IF r.i + 1 < r.man.totalChunks THEN "scan" ELSE "save"]
       IN  /\ nodes' = newNodes
           /\ up' = [g \in FileIds |-> Watch(IF g = f THEN done ELSE up[g], newNodes)]
           /\ rc' = RcWatch(newNodes)
    /\ UNCHANGED <<store, catalog, outputs, now, tg, damage, last, dl, systemLogs, emitted>>

\* writeMetadata(metadata): metadata.json is replaced by the handler's copy,
\* which is the catalog as read at the start plus this file's manifest.  The
\* staged file is unlinked and the response sent.
writeMetadata(f) == (f :> up[f].man) @@ up[f].snap

UploadSave(f) ==
    /\ up[f].pc = "save"
    /\ catalog' = writeMetadata(f)
    /\ up' = [up EXCEPT ![f] = UpReturn(up[f], "done", "")]
    /\ UNCHANGED <<nodes, store, outputs, now, rc, tg, damage, last, dl, systemLogs, emitted>>

\* ------------------------------------------------------- reconstruct handler

RcIdle ==
    [pc |-> "idle", fileId |-> 0, info |-> NoManifest, i |-> 0, chunks |-> <<>>,
     missingChunks |-> <<>>, status |-> "", availableChunks |-> 0, error |-> "",
     wrote |-> FALSE, steady |-> FALSE]

\* chunks.filter(chunk => chunk !== undefined).length
RECURSIVE CountDefined(_)
CountDefined(chunks) ==
    IF chunks = <<>> THEN 0
    ELSE (IF Head(chunks) = Undefined THEN 0 ELSE 1) + CountDefined(Tail(chunks))

\* Faulty variant: anything short of all chunks is reported as failed.
reconstructionStatusNoPartial(availableChunks, totalChunks) ==
    IF availableChunks = totalChunks THEN "success" ELSE "failed"

\* Faulty variant: anything short of all chunks is reported as partial.
reconstructionStatusNoFailed(availableChunks, totalChunks) ==
    IF availableChunks = totalChunks THEN "success" ELSE "partial"

\* Faulty variant: the test for no chunks comes first.
reconstructionStatusZeroFirst(availableChunks, totalChunks) ==
    IF availableChunks = 0 THEN "failed"
    ELSE IF availableChunks = totalChunks THEN "success" ELSE "partial"

reconstructionStatus(availableChunks, totalChunks) ==
    IF availableChunks = totalChunks THEN "success"
    ELSE IF availableChunks > 0 THEN "partial" ELSE "failed"

\* Faulty variant: the status is not looked at.
reconstructNodeAny(nodeStatus) == TRUE

\* if (nodeStatus.status === 'online') in the chunk loop of reconstruct
reconstructNodeOnline(nodeStatus) == nodeStatus.status = "online"

\* The request arrives: readMetadata and the lookup of metadata.files[fileId].
ReconstructStart(fileId) ==
    /\ rc.pc = "idle"
    /\ rc' = IF fileId \notin DOMAIN catalog
             THEN [RcIdle EXCEPT !.pc = "done", !.fileId = fileId, !.steady = TRUE,
                                 !.error = "File not found"]
             ELSE [RcIdle EXCEPT
                     !.pc = IF catalog[fileId].totalChunks = 0 THEN "finish" ELSE "status",
                     !.fileId = fileId, !.info = catalog[fileId], !.steady = TRUE]
    /\ UNCHANGED <<nodes, store, catalog, outputs, now, up, tg, damage, last, dl, systemLogs, emitted>>

RcAdvance(r) ==
    [r EXCEPT !.i = r.i + 1,
              !.pc = IF r.i + 1 < r.info.totalChunks THEN "status" ELSE "finish"]

\* const chunkInfo = fileInfo.chunks[i]; await getNodeStatus(chunkInfo.node)
ReconstructStatus ==
    /\ rc.pc = "status"
    /\ rc' = IF rc.i + 1 > Len(rc.info.chunks)
             THEN [RcIdle EXCEPT !.pc = "done", !.fileId = rc.fileId,
                                 !.error = "TypeError"]
             ELSE LET chunkInfo == rc.info.chunks[rc.i + 1]
                  IN  IF reconstructNodeOnline(getNodeStatus(chunkInfo.node))
                      THEN [rc EXCEPT !.pc = "read"]
                      ELSE RcAdvance([rc EXCEPT
                             !.chunks = Append(rc.chunks, Undefined),
                             !.missingChunks = Append(rc.missingChunks,
                                 [chunkId |-> rc.i, node |-> chunkInfo.node,
                                  error |-> "Node offline"])])
    /\ UNCHANGED <<nodes, store, catalog, outputs, now, up, tg, damage, last, dl, systemLogs, emitted>>

\* Faulty variant: the payload is taken as read, its digest is not compared.
ReconstructReadUnverified ==
    /\ rc.pc = "read"
    /\ LET chunkInfo == rc.info.chunks[rc.i + 1]
           files == store[chunkInfo.node]
           chunkPath == <<rc.fileId, rc.i>>
       IN  rc' = IF chunkPath \notin DOMAIN files
                 THEN RcAdvance([rc EXCEPT
                          !.chunks = Append(rc.chunks, Undefined),
                          !.missingChunks = Append(rc.missingChunks,
                              [chunkId |-> rc.i, node |-> chunkInfo.node,
                               error |-> "ENOENT"])])
                 ELSE RcAdvance([rc EXCEPT !.chunks = Append(rc.chunks, files[chunkPath])])
    /\ UNCHANGED <<nodes, store, catalog, outputs, now, up, tg, damage, last, dl, systemLogs, emitted>>

\* Faulty variant: a digest mismatch is reported as a failed read.
ReconstructReadOneReason ==
    /\ rc.pc = "read"
    /\ LET chunkInfo == rc.info.chunks[rc.i + 1]
           files == store[chunkInfo.node]
           chunkPath == <<rc.fileId, rc.i>>
           miss(msg) == RcAdvance([rc EXCEPT
                          !.chunks = Append(rc.chunks, Undefined),
                          !.missingChunks = Append(rc.missingChunks,
                              [chunkId |-> rc.i, node |-> chunkInfo.node, error |-> msg])])
       IN  rc' = IF chunkPath \notin DOMAIN files THEN miss("ENOENT")
                 ELSE IF generateHash(files[chunkPath]) # chunkInfo.hash
                 THEN miss("ENOENT")
                 ELSE RcAdvance([rc EXCEPT !.chunks = Append(rc.chunks, files[chunkPath])])
    /\ UNCHANGED <<nodes, store, catalog, outputs, now, up, tg, damage, last, dl, systemLogs, emitted>>

\* Faulty variant: a failed read ends the request with the error.
ReconstructReadAborting ==
    /\ rc.pc = "read"
    /\ LET chunkInfo == rc.info.chunks[rc.i + 1]
           files == store[chunkInfo.node]
           chunkPath == <<rc.fileId, rc.i>>
           miss(msg) == RcAdvance([rc EXCEPT
                          !.chunks = Append(rc.chunks, Undefined),
                          !.missingChunks = Append(rc.missingChunks,
                              [chunkId |-> rc.i, node |-> chunkInfo.node, error |-> msg])])
       IN  rc' = IF chunkPath \notin DOMAIN files
                 THEN [RcIdle EXCEPT !.pc = "done", !.fileId = rc.fileId,
                                     !.steady = rc.steady, !.error = "ENOENT"]
                 ELSE IF generateHash(files[chunkPath]) # chunkInfo.hash
                 THEN miss("hash mismatch")
                 ELSE RcAdvance([rc EXCEPT !.chunks = Append(rc.chunks, files[chunkPath])])
    /\ UNCHANGED <<nodes, store, catalog, outputs, now, up, tg, damage, last, dl, systemLogs, emitted>>

\* fs.readFile(chunkPath) and the comparison of its digest with chunkInfo.hash
ReconstructRead ==
    /\ rc.pc = "read"
    /\ LET chunkInfo == rc.info.chunks[rc.i + 1]
           files == store[chunkInfo.node]
           chunkPath == <<rc.fileId, rc.i>>
           miss(msg) == RcAdvance([rc EXCEPT
                          !.chunks = Append(rc.chunks, Undefined),
                          !.missingChunks = Append(rc.missingChunks,
                              [chunkId |-> rc.i, node |-> chunkInfo.node, error |-> msg])])
       IN  rc' = IF chunkPath \notin DOMAIN files THEN miss("ENOENT")
                 ELSE IF generateHash(files[chunkPath]) # chunkInfo.hash
                 THEN miss("hash mismatch")
                 ELSE RcAdvance([rc EXCEPT !.chunks = Append(rc.chunks, files[chunkPath])])
    /\ UNCHANGED <<nodes, store, catalog, outputs, now, up, tg, damage, last, dl, systemLogs, emitted>>

\* Faulty variant: whatever was retrieved is written to the output file.
ReconstructFinishWriting ==
    /\ rc.pc = "finish"
    /\ LET availableChunks == CountDefined(rc.chunks)
           status == reconstructionStatus(availableChunks, rc.info.totalChunks)
           retrieved == SelectSeq(rc.chunks, LAMBDA c : c # Undefined)
       IN  /\ outputs' = (rc.info.originalName :> bufferConcat(retrieved)) @@ outputs
           /\ rc' = [rc EXCEPT !.pc = "done", !.status = status, !.chunks = <<>>,
                               !.info = NoManifest, !.i = 0,
                               !.availableChunks = availableChunks,
                               !.wrote = (status = "success")]
    /\ UNCHANGED <<nodes, store, catalog, now, up, tg, damage, last, dl, systemLogs, emitted>>

\* Faulty variant: the manifest of a file that cannot be reconstructed at all
\* is removed from the catalog.
ReconstructFinishPruning ==
    /\ rc.pc = "finish"
    /\ LET availableChunks == CountDefined(rc.chunks)
           status == reconstructionStatus(availableChunks, rc.info.totalChunks)
           reconstructedBuffer == bufferConcat(rc.chunks)
           result == [rc EXCEPT !.pc = "done", !.status = status, !.chunks = <<>>,
                                !.info = NoManifest, !.i = 0,
                                !.availableChunks = availableChunks]
       IN  IF status = "success"
           THEN /\ outputs' = (rc.info.originalName :> reconstructedBuffer) @@ outputs
                /\ rc' = [result EXCEPT !.wrote = TRUE]
                /\ UNCHANGED catalog
           ELSE /\ rc' = result
                /\ catalog' = IF status = "failed"
                              THEN [g \in DOMAIN catalog \ {rc.fileId} |-> catalog[g]]
                              ELSE catalog
                /\ UNCHANGED outputs
    /\ UNCHANGED <<nodes, store, now, up, tg, damage, last, dl, systemLogs, emitted>>

\* The classification and, on success, the file digest check and the write
\* of uploads/reconstructed_<originalName>.
ReconstructFinish ==
    /\ rc.pc = "finish"
    /\ LET availableChunks == CountDefined(rc.chunks)
           status == reconstructionStatus(availableChunks, rc.info.totalChunks)
           reconstructedBuffer == bufferConcat(rc.chunks)
           result == [rc EXCEPT !.pc = "done", !.status = status, !.chunks = <<>>,
                                !.info = NoManifest, !.i = 0,
                                !.availableChunks = availableChunks]
       IN  IF status = "success"
           THEN IF generateHash(reconstructedBuffer) # rc.info.fileHash
                THEN /\ rc' = [result EXCEPT !.status = "",
                                             !.error = "File hash mismatch - data corrupted"]
                     /\ UNCHANGED outputs
                ELSE /\ outputs' = (rc.info.originalName :> reconstructedBuffer) @@ outputs
                     /\ rc' = [result EXCEPT !.wrote = TRUE]
           ELSE /\ rc' = result
                /\ UNCHANGED outputs
    /\ UNCHANGED <<nodes, store, catalog, now, up, tg, damage, last, dl, systemLogs, emitted>>

\* res.json(...) / res.status(500).json(...): the result leaves the handler.
ReconstructRespond ==
    /\ rc.pc = "done"
    /\ rc' = RcIdle
    /\ UNCHANGED <<nodes, store, catalog, outputs, now, up, tg, damage, last, dl, systemLogs, emitted>>

\* The same step, with the history noted.
ReconstructRespondNoted ==
    /\ rc.pc = "done"
    /\ rc' = RcIdle
    /\ last' = IF \E k \in 1 .. Len(rc.missingChunks) :
                      rc.missingChunks[k].error = "Node offline"
               THEN last \cup {rc.fileId} ELSE last
    /\ UNCHANGED <<nodes, store, catalog, outputs, now, up, tg, damage, dl, systemLogs, emitted>>

\* ------------------------------------------------------------ toggle handler

TgIdle ==
    [pc |-> "idle", nodeId |-> NoNode, status |-> "", newStatus |-> "",
     us |-> NoRecord, error |-> ""]

\* Faulty variant: any node id is accepted.
knownNodeAny(nodeId) == TRUE

\* NODES.includes(nodeId)
knownNode(nodeId) == nodeId \in NodeIds

\* status || (currentStatus.status === 'online' ? 'offline' : 'online')
newStatusOf(status, currentStatus) ==
    IF status # "" THEN status
    ELSE IF currentStatus.status = "online" THEN "offline" ELSE "online"

\* The request arrives: NODES.includes(nodeId), then getNodeStatus(nodeId)
\* and the choice of the new status.  For a node id that is not in NODES the
\* handler throws, and its catch answers 500 with 'Invalid node ID'.
ToggleStart(t, nodeId, status) ==
    /\ tg[t].pc = "idle"
    /\ tg' = [tg EXCEPT ![t] =
                IF ~knownNode(nodeId)
                THEN [TgIdle EXCEPT !.pc = "done", !.nodeId = nodeId, !.status = status,
                                    !.error = "Invalid node ID"]
                ELSE [TgIdle EXCEPT !.pc = "updRead", !.nodeId = nodeId, !.status = status,
                        !.newStatus = newStatusOf(status, getNodeStatus(nodeId))]]
    /\ UNCHANGED <<nodes, store, catalog, outputs, now, up, rc, damage, last, dl, systemLogs, emitted>>

\* updateNodeStatus(nodeId, newStatus): its getNodeStatus
ToggleUpdRead(t) ==
    /\ tg[t].pc = "updRead"
    /\ tg' = [tg EXCEPT ![t] = [tg[t] EXCEPT
                !.us = updateNodeStatusRecord(tg[t].nodeId, tg[t].newStatus),
                !.pc = "updWrite"]]
    /\ UNCHANGED <<nodes, store, catalog, outputs, now, up, rc, damage, last, dl, systemLogs, emitted>>

\* updateNodeStatus' write; the handler is left with its response, which
\* names the node and updatedStatus.status.
ToggleUpdWrite(t) ==
    /\ tg[t].pc = "updWrite"
    /\ LET newNodes == writeStatusFile(tg[t].nodeId, tg[t].us)
       IN  /\ nodes' = newNodes
           /\ up' = [g \in FileIds |-> Watch(up[g], newNodes)]
           /\ rc' = RcWatch(newNodes)
    /\ tg' = [tg EXCEPT ![t] = [tg[t] EXCEPT !.pc = "done", !.us = NoRecord]]
    /\ UNCHANGED <<store, catalog, outputs, now, damage, last, dl, systemLogs, emitted>>

\* res.json(...) / res.status(500).json(...): the response leaves the handler.
ToggleRespond(t) ==
    /\ tg[t].pc = "done"
    /\ tg' = [tg EXCEPT ![t] = TgIdle]
    /\ UNCHANGED <<nodes, store, catalog, outputs, now, up, rc, damage, last, dl, systemLogs, emitted>>

\* The whole handler, for the runs in which requests are served one at a
\* time: the three steps above with nothing in between.
ToggleRequest(nodeId, status) ==
    /\ nodeId \in NodeIds
    /\ LET newStatus == newStatusOf(status, getNodeStatus(nodeId))
           newNodes == writeStatusFile(nodeId, updateNodeStatusRecord(nodeId, newStatus))
       IN  /\ nodes' = newNodes
           /\ up' = [g \in FileIds |-> Watch(up[g], newNodes)]
           /\ rc' = RcWatch(newNodes)
    /\ UNCHANGED <<store, catalog, outputs, now, tg, damage, last, dl, systemLogs, emitted>>

\* ---------------------------------------------------------- download handler

DlNone == [fileId |-> 0, error |-> "", sent |-> FALSE, bytes |-> <<>>]

\* GET /api/download/:fileId: the manifest is looked up by fileId, the file
\* sent is uploads/reconstructed_<originalName>.
Download(fileId) ==
    /\ dl' = IF fileId \notin DOMAIN catalog
             THEN [DlNone EXCEPT !.fileId = fileId, !.error = "File not found"]
             ELSE IF catalog[fileId].originalName \notin DOMAIN outputs
             THEN [DlNone EXCEPT !.fileId = fileId,
                                 !.error = "File not reconstructed yet"]
             ELSE [DlNone EXCEPT !.fileId = fileId, !.sent = TRUE,
                                 !.bytes = outputs[catalog[fileId].originalName]]
    /\ UNCHANGED <<nodes, store, catalog, outputs, now, up, rc, tg, damage, last,
                   systemLogs, emitted>>

\* ---------------------------------------------------------------- event log

\* Faulty variant: on overflow the entry just added is the one dropped.
logEventDropNewest(logs, entry) ==
    LET added == <<entry>> \o logs
    IN  IF Len(added) > MaxSystemLogs THEN Tail(added) ELSE added

\* logEvent on global.systemLogs: unshift(entry), and pop() when the length
\* has gone over the cap.
logEvent(logs, entry) ==
    LET added == <<entry>> \o logs
    IN  IF Len(added) > MaxSystemLogs THEN SubSeq(added, 1, Len(added) - 1) ELSE added

\* A call logEvent(message, type)
EmitEvent(message, type) ==
    /\ Len(emitted) < MaxEvents
    /\ LET entry == [timestamp |-> now, type |-> type, message |-> message]
       IN  /\ systemLogs' = logEvent(systemLogs, entry)
           /\ emitted' = Append(emitted, entry)
    /\ UNCHANGED <<nodes, store, catalog, outputs, now, up, rc, tg, damage, last, dl>>

\* -------------------------------------------------------------- environment

\* Time passes.
Tick ==
    /\ now < MaxTime
    /\ now' = now + 1
    /\ UNCHANGED <<nodes, store, catalog, outputs, up, rc, tg, damage, last, dl, systemLogs, emitted>>

Harm(newStore) ==
    /\ damage < MaxDamage
    /\ store' = newStore
    /\ damage' = damage + 1
    /\ rc' = IF rc.pc \in {"idle", "done"} THEN rc ELSE [rc EXCEPT !.steady = FALSE]
    /\ UNCHANGED <<nodes, catalog, outputs, now, up, tg, last, dl, systemLogs, emitted>>

\* A stored chunk payload is lost: the file is removed from the node's directory.
DeleteChunkFile(n, key) ==
    /\ key \in DOMAIN store[n]
    /\ Harm([store EXCEPT ![n] = [k \in DOMAIN store[n] \ {key} |-> store[n][k]]])

\* A stored chunk payload is altered: its bytes are replaced by other bytes.
AlterChunkFile(n, key, bytes) ==
    /\ key \in DOMAIN store[n]
    /\ bytes # store[n][key]
    /\ Harm([store EXCEPT ![n][key] = bytes])

\* ------------------------------------------------------------ specifications

Init ==
    /\ nodes = [n \in NodeIds |->
                  [nodeId |-> n, status |-> "online", chunkCount |-> 0, lastSeen |-> 0]]
    /\ store = [n \in NodeIds |-> <<>>]
    /\ catalog = <<>>
    /\ outputs = <<>>
    /\ now = 0
    /\ up = [f \in FileIds |-> UpIdle]
    /\ rc = RcIdle
    /\ tg = [t \in 1 .. NumTogglers |-> TgIdle]
    /\ damage = 0
    /\ last = {}
    /\ dl = DlNone
    /\ systemLogs = <<>>
    /\ emitted = <<>>

\* No request is being served.
Quiet ==
    /\ \A f \in FileIds : up[f].pc \in {"idle", "done", "failed"}
    /\ rc.pc = "idle"
    /\ \A t \in DOMAIN tg : tg[t].pc = "idle"

UploadStep(f) ==
    \/ UploadScan(f)
    \/ UploadWriteChunk(f)
    \/ UploadCount(f)
    \/ UploadUpdRead(f)
    \/ UploadUpdWrite(f)
    \/ UploadSave(f)

ReconstructStep ==
    \/ ReconstructStatus
    \/ ReconstructRead
    \/ ReconstructFinish

ToggleStep(t) ==
    \/ ToggleUpdRead(t)
    \/ ToggleUpdWrite(t)

\* The uploaded files: every file of up to MaxLen bytes, and two longer ones
\* (two full chunks; three chunks, the last one short).
Inputs == SeqsUpTo(MaxLen) \cup {<<0, 1, 1, 0>>, <<1, 0, 0, 1, 1>>}
Payloads == SeqsUpTo(CHUNK_SIZE)

\* req.body.status: absent (""), or one of the two statuses
StatusArgs == {"", "online", "offline"}

\* req.body.status as a client may send it: absent, one of the two statuses,
\* or any other string
BodyStatuses == StatusArgs \cup {"maintenance"}

\* req.params.nodeId: a node of NODES, or an id that is not in NODES
RequestedIds == NodeIds \cup {"node5"}

\* One file per length, for the runs in which the bytes play no part.
PairInputs == {SubSeq(<<0, 1, 1, 0, 1>>, 1, k) : k \in 0 .. MaxLenPair}

\* Requests are served one at a time: a request starts only when no other is
\* being served, and the environment acts between requests.  One file is
\* uploaded, with any content.
Next ==
    \/ Quiet /\ \E b \in Inputs : UploadStart(1, "a.txt", b)
    \/ UploadStep(1)
    \/ Quiet /\ \E f \in FileIds : ReconstructStart(f)
    \/ ReconstructStep
    \/ ReconstructRespond
    \/ Quiet /\ \E n \in NodeIds, s \in StatusArgs : ToggleRequest(n, s)
    \/ Quiet /\ \E n \in NodeIds : \E k \in DOMAIN store[n] : DeleteChunkFile(n, k)
    \/ Quiet /\ \E n \in NodeIds : \E k \in DOMAIN store[n] :
                \E b \in Payloads : AlterChunkFile(n, k, b)

Spec == Init /\ [][Next]_vars

\* One file is uploaded; toggle and reconstruct requests follow one at a time,
\* and the history of the reconstruct answers is noted.
NextRecover ==
    \/ Quiet /\ \E b \in PairInputs : UploadStart(1, "a.txt", b)
    \/ UploadStep(1)
    \/ Quiet /\ ReconstructStart(1)
    \/ ReconstructStep
    \/ ReconstructRespondNoted
    \/ Quiet /\ \E n \in NodeIds, s \in StatusArgs : ToggleRequest(n, s)

SpecRecover == Init /\ [][NextRecover]_vars

\* Two uploads are served concurrently, with every node online: their steps
\* interleave at every await.
NextPair ==
    \/ \E f \in FileIds, b \in PairInputs : UploadStart(f, "a.txt", b)
    \/ \E f \in FileIds : UploadStep(f)
    \/ Tick

SpecPair == Init /\ [][NextPair]_vars

\* An upload is served concurrently with toggle requests.
NextFail ==
    \/ \E b \in PairInputs : UploadStart(1, "a.txt", b)
    \/ UploadStep(1)
    \/ \E n \in NodeIds, s \in StatusArgs : ToggleStart(1, n, s)
    \/ ToggleStep(1)
    \/ ToggleRespond(1)

SpecFail == Init /\ [][NextFail]_vars

\* One file per length up to MaxLenPlace: up to five chunks, one more than
\* there are nodes.
PlaceInputs == {[j \in 1 .. k |-> j % 2] : k \in 0 .. MaxLenPlace}

\* Toggle requests set the node statuses, then one file is uploaded with the
\* statuses as they are; requests are served one at a time.
NextPlace ==
    \/ Quiet /\ \E b \in PlaceInputs : UploadStart(1, "a.txt", b)
    \/ UploadStep(1)
    \/ Quiet /\ \E n \in NodeIds, s \in StatusArgs : ToggleRequest(n, s)

SpecPlace == Init /\ [][NextPlace]_vars

\* Files are uploaded under one original name, reconstructed and downloaded,
\* one request at a time, with every node online.
NextShare ==
    \/ Quiet /\ \E f \in FileIds, b \in PairInputs : UploadStart(f, "a.txt", b)
    \/ \E f \in FileIds : UploadStep(f)
    \/ Quiet /\ \E f \in FileIds : ReconstructStart(f)
    \/ ReconstructStep
    \/ ReconstructRespond
    \/ Quiet /\ \E f \in FileIds : Download(f)

SpecShare == Init /\ [][NextShare]_vars

\* Toggle requests whose body carries any string as the status are served
\* one after the other.
NextStatus ==
    \/ \E n \in NodeIds, s \in BodyStatuses : ToggleStart(1, n, s)
    \/ ToggleStep(1)
    \/ ToggleRespond(1)

SpecStatus == Init /\ [][NextStatus]_vars

\* Events are logged while time passes.
LogMessages == {"System started", "File uploaded"}
LogTypes == {"info", "error"}

NextLog ==
    \/ \E m \in LogMessages, t \in LogTypes : EmitEvent(m, t)
    \/ Tick

SpecLog == Init /\ [][NextLog]_vars

\* An upload and reconstruct requests are served while toggle requests change
\* the node statuses between any two of their steps.  The event loop runs
\* the continuation of every await that has completed: a step of a handler
\* that stays possible is eventually taken.
NextLive ==
    \/ \E b \in PairInputs : UploadStart(1, "a.txt", b)
    \/ UploadStep(1)
    \/ ReconstructStart(1)
    \/ ReconstructStep
    \/ ReconstructRespond
    \/ \E n \in NodeIds, s \in StatusArgs : ToggleRequest(n, s)

SpecLive ==
    /\ Init /\ [][NextLive]_vars
    /\ WF_vars(UploadStep(1))
    /\ WF_vars(ReconstructStep)

\* NumTogglers toggle requests, one per handler instance, are served
\* concurrently while time passes; a request may name a node that is not in
\* NODES.
NextToggle ==
    \/ \E t \in DOMAIN tg : \E n \in RequestedIds, s \in StatusArgs : ToggleStart(t, n, s)
    \/ \E t \in DOMAIN tg : ToggleStep(t)
    \/ Tick

SpecToggle == Init /\ [][NextToggle]_vars

\* ------------------------------------------------------------------ claims

\* What the properties read off a state: the chunks of a catalogued file, the
\* node each is recorded on, and why a chunk cannot be had right now.
ChunkIdx(f) == 0 .. catalog[f].totalChunks - 1
ChunkNode(f, i) == catalog[f].chunks[i + 1].node
Stored(f, i) == <<f, i>> \in DOMAIN store[ChunkNode(f, i)]
Obstacle(f, i) ==
    IF nodes[ChunkNode(f, i)].status # "online" THEN "offline"
    ELSE IF ~Stored(f, i) THEN "unreadable"
    ELSE IF store[ChunkNode(f, i)][<<f, i>>] # chunkSlice(up[f].buf, i) THEN "altered"
    ELSE "none"
Unreachable(f) == {i \in ChunkIdx(f) : Obstacle(f, i) # "none"}
MissingIds == {rc.missingChunks[k].chunkId : k \in 1 .. Len(rc.missingChunks)}
MissingInOrder ==
    \A k \in 1 .. Len(rc.missingChunks) - 1 :
        rc.missingChunks[k].chunkId < rc.missingChunks[k + 1].chunkId
\* A reconstruct of a catalogued file has run to its answer while the node
\* statuses and the payloads stayed as they are.
Answered(f) ==
    /\ rc.pc = "done" /\ rc.fileId = f /\ rc.steady
    /\ f \in DOMAIN catalog

\* C1: a file uploaded with every node online, and reconstructed with every
\* node online and its payloads untouched, is answered with success, and the
\* persisted output is byte-equal to the uploaded bytes.
C1_RoundTrip ==
    \A f \in FileIds :
        (/\ rc.pc = "done" /\ rc.fileId = f /\ rc.steady
         /\ up[f].pc = "done" /\ up[f].allOn
         /\ AllOnline(nodes) /\ damage = 0)
        => /\ rc.error = "" /\ rc.status = "success"
           /\ up[f].name \in DOMAIN outputs
           /\ outputs[up[f].name] = up[f].buf

C1_Witness ==
    /\ rc.pc = "done" /\ rc.fileId = 1 /\ rc.status = "success"
    /\ up[1].pc = "done" /\ up[1].allOn /\ AllOnline(nodes) /\ damage = 0
    /\ up[1].buf = <<0, 1, 1, 0>>
    /\ outputs["a.txt"] = <<0, 1, 1, 0>>

\* C2: a node that was offline when an upload started, and whose status has
\* not changed since, is named by no chunk record of the manifest the upload
\* is building and holds no chunk payload of that file.
C2_OfflineNotAssigned ==
    \A f \in FileIds : \A n \in up[f].stableOff :
        /\ up[f].assigned # n
        /\ \A k \in 1 .. Len(up[f].man.chunks) : up[f].man.chunks[k].node # n
        /\ \A key \in DOMAIN store[n] : key[1] # f

\* The manifest of a two-chunk file is complete while a node that was offline
\* at the start is still offline, and another node has changed its status.
C2_Witness ==
    /\ up[1].pc = "save" /\ Len(up[1].man.chunks) = 2
    /\ up[1].stableOff # {}
    /\ ~up[1].allOn
    /\ \E n \in NodeIds \ up[1].stableOff : nodes[n].status = "offline"

\* The answer of a reconstruct: with the payloads untouched, it reports as
\* missing exactly the chunks recorded on nodes that are offline, each with the reason 'Node
\* offline' and the node of its record, and succeeds when none is (so also
\* once the node is online again, with no new upload); the manifests in the
\* catalog never change.
C3_Answer ==
    \A f \in FileIds :
        (Answered(f) /\ damage = 0) =>
            LET Off == {i \in ChunkIdx(f) : nodes[ChunkNode(f, i)].status # "online"}
            IN  /\ rc.error = ""
                /\ MissingIds = Off
                /\ Len(rc.missingChunks) = Cardinality(Off)
                /\ \A k \in 1 .. Len(rc.missingChunks) :
                      /\ rc.missingChunks[k].error = "Node offline"
                      /\ rc.missingChunks[k].node = ChunkNode(f, rc.missingChunks[k].chunkId)
                /\ Off = {} =>
                      /\ rc.status = "success"
                      /\ outputs[catalog[f].originalName] = up[f].buf

\* C3: every reconstruct answer names exactly the chunks on offline nodes as
\* missing with the reason 'Node offline' and is success when there are none
\* (hence again after the node is back online), and no step changes a
\* manifest that is in the catalog.
C3_OfflineRecovery ==
    /\ []C3_Answer
    /\ [][\A f \in DOMAIN catalog :
            f \in DOMAIN catalog' /\ catalog'[f] = catalog[f]]_vars

\* A reconstruct succeeds for a file of which an earlier reconstruct reported
\* chunks on an offline node.
C3_Witness ==
    /\ Answered(1) /\ rc.status = "success" /\ 1 \in last
    /\ catalog[1].totalChunks = 2 /\ damage = 0

\* C4: when exactly k of the N chunks of a file, 0 < k < N, cannot be had at
\* reconstruction time (node offline, payload unreadable or payload altered),
\* the answer is partial, the missing list has exactly one entry per such
\* chunk, without duplicates, and availableChunks + k = N.
C4_PartialOutcome ==
    \A f \in FileIds :
        Answered(f) =>
            LET N == catalog[f].totalChunks
                k == Cardinality(Unreachable(f))
            IN  (0 < k /\ k < N) =>
                    /\ rc.error = "" /\ rc.status = "partial"
                    /\ Len(rc.missingChunks) = k
                    /\ MissingIds = Unreachable(f)
                    /\ MissingInOrder
                    /\ rc.availableChunks + k = N

C4_Witness ==
    /\ Answered(1) /\ rc.status = "partial"
    /\ catalog[1].totalChunks = 3
    /\ Len(rc.missingChunks) = 2
    /\ rc.missingChunks[1].error = "Node offline"
    /\ rc.missingChunks[2].error = "hash mismatch"

\* C5: when every node is offline while a file of N >= 1 chunks is
\* reconstructed, the answer is failed, the missing list has N entries, each
\* with the reason 'Node offline', and no output file is written.
C5_AllOffline ==
    [][(/\ rc.pc = "finish" /\ rc'.pc = "done" /\ rc.steady
        /\ rc.info.totalChunks >= 1
        /\ \A n \in NodeIds : nodes[n].status = "offline")
       => /\ rc'.status = "failed" /\ rc'.error = ""
          /\ Len(rc'.missingChunks) = rc.info.totalChunks
          /\ \A k \in 1 .. Len(rc'.missingChunks) :
                /\ rc'.missingChunks[k].error = "Node offline"
                /\ rc'.missingChunks[k].chunkId = k - 1
          /\ outputs' = outputs]_vars

C5_Witness ==
    /\ Answered(1) /\ rc.status = "failed"
    /\ catalog[1].totalChunks = 3
    /\ Len(rc.missingChunks) = 3
    /\ \A n \in NodeIds : nodes[n].status = "offline"

\* C6 as stated: success when all chunks were retrieved, partial when
\* 0 < retrieved < totalChunks, failed when retrieved = 0.
C6_Original ==
    \A f \in FileIds :
        Answered(f) =>
            LET N == catalog[f].totalChunks
                retrieved == N - Cardinality(Unreachable(f))
            IN  /\ retrieved = N => rc.status = "success"
                /\ (0 < retrieved /\ retrieved < N) => rc.status = "partial"
                /\ retrieved = 0 => rc.status = "failed"

\* C6, amended: success when all chunks were retrieved (also when there are
\* none), partial when 0 < retrieved < totalChunks, failed when retrieved = 0
\* and totalChunks > 0; the outcome is a function of the two counts.
C6_Classification ==
    \A f \in FileIds :
        Answered(f) =>
            LET N == catalog[f].totalChunks
                retrieved == N - Cardinality(Unreachable(f))
            IN  /\ rc.error = ""
                /\ rc.availableChunks = retrieved
                /\ retrieved = N => rc.status = "success"
                /\ (0 < retrieved /\ retrieved < N) => rc.status = "partial"
                /\ (retrieved = 0 /\ N > 0) => rc.status = "failed"

C6_Witness ==
    /\ Answered(1) /\ catalog[1].totalChunks = 0
    /\ rc.status = "success" /\ rc.availableChunks = 0

\* C7: the catalog holds no manifest, complete or partial, of an upload that
\* is still running or that has failed: only an upload that has returned
\* success is catalogued.
C7_NoManifestUnlessDone ==
    \A f \in FileIds : f \in DOMAIN catalog => up[f].pc = "done"

\* An upload has failed with 'No online nodes available' after its chunk 0
\* was stored.
C7_Witness ==
    /\ up[1].pc = "failed" /\ up[1].error = "No online nodes available"
    /\ \E n \in NodeIds : <<1, 0>> \in DOMAIN store[n]
    /\ 1 \notin DOMAIN catalog

\* C8 as stated: after an upload has failed, the catalog holds no manifest of
\* it and no node stores a chunk payload of it.
C8_NothingCommitted ==
    \A f \in FileIds :
        up[f].pc = "failed" =>
            /\ f \notin DOMAIN catalog
            /\ \A n \in NodeIds : \A key \in DOMAIN store[n] : key[1] # f

\* The chunk records of the catalog that name node n.
RecordsOn(n) ==
    UNION {{<<f, k>> : k \in {j \in 1 .. Len(catalog[f].chunks) :
                                catalog[f].chunks[j].node = n}} : f \in DOMAIN catalog}
TotalRecords ==
    Cardinality(UNION {{<<f, k>> : k \in 1 .. Len(catalog[f].chunks)} : f \in DOMAIN catalog})
NoUploadRunning == \A f \in FileIds : up[f].pc \in {"idle", "done", "failed"}

\* C9 as stated: with all nodes online, the chunks of all uploads together
\* take the slots 0, 1, 2, ... of one round-robin over NODES, each slot once.
C9_GlobalRotation ==
    (NoUploadRunning /\ AllOnline(nodes)) =>
        \A j \in 1 .. Len(NODES) :
            Cardinality(RecordsOn(NODES[j])) =
                Cardinality({t \in 0 .. TotalRecords - 1 : t % Len(NODES) = j - 1})

\* C10 as stated: the persisted chunkCount of a node is the number of chunks
\* assigned to it.
C10_ChunkCount ==
    NoUploadRunning =>
        \A n \in NodeIds : nodes[n].chunkCount = Cardinality(RecordsOn(n))

\* C11: the write of a toggle request changes nothing but the status and
\* lastSeen of the node it names: that node's chunkCount and nodeId, the
\* records of the other nodes, the catalog, the chunk payloads and the outputs
\* stay as they are; the node gets the requested status, so a request for the
\* status the node already has leaves the status as it is.
C11_StatusFrame ==
    [][\A t \in DOMAIN tg :
         (tg[t].pc = "updWrite" /\ tg'[t].pc = "done") =>
            LET n == tg[t].nodeId
            IN  /\ DOMAIN nodes' = DOMAIN nodes
                /\ \A m \in NodeIds \ {n} : nodes'[m] = nodes[m]
                /\ nodes'[n].chunkCount = nodes[n].chunkCount
                /\ nodes'[n].nodeId = nodes[n].nodeId
                /\ nodes'[n].status = tg[t].newStatus
                /\ tg[t].status # "" => nodes'[n].status = tg[t].status
                /\ tg[t].status = nodes[n].status => nodes'[n].status = nodes[n].status
                /\ catalog' = catalog /\ store' = store /\ outputs' = outputs]_vars

\* A toggle request has set node1 offline while node1 holds a chunk payload
\* of the upload that is running.
C11_Witness ==
    /\ tg[1].pc = "done" /\ tg[1].nodeId = "node1" /\ tg[1].status = "offline"
    /\ nodes["node1"].status = "offline"
    /\ <<1, 0>> \in DOMAIN store["node1"]
    /\ up[1].pc = "scan"

\* C12: a toggle request for a node id that is not in NODES is answered with
\* the error 'Invalid node ID' and changes no node record, payload, manifest
\* or output; the status records are always those of NODES, and only such a
\* request gets the error.
C12_UnknownNode ==
    /\ [](DOMAIN nodes = NodeIds)
    /\ [](\A t \in DOMAIN tg : tg[t].error # "" => tg[t].nodeId \notin NodeIds)
    /\ [][\A t \in DOMAIN tg :
            (tg[t].pc = "idle" /\ tg'[t].pc # "idle" /\ tg'[t].nodeId \notin NodeIds) =>
                /\ tg'[t].pc = "done" /\ tg'[t].error = "Invalid node ID"
                /\ nodes' = nodes /\ store' = store
                /\ catalog' = catalog /\ outputs' = outputs]_vars

\* A request for node5 has been answered with the error after another
\* request has set a node offline.
C12_Witness ==
    \E t \in DOMAIN tg :
        /\ tg[t].pc = "done" /\ tg[t].nodeId = "node5"
        /\ tg[t].error = "Invalid node ID"
        /\ \E n \in NodeIds : nodes[n].status = "offline"

\* C19 as stated: concurrent toggle requests on one node have the effect of
\* the same requests served one after the other.  Every node starts online
\* and each handler instance serves one request, so once all the requests
\* that name node n are answered, and none carried a status, n is online
\* after an even number of them and offline after an odd number.
C19_SerialToggles ==
    \A n \in NodeIds :
        LET T == {t \in DOMAIN tg : tg[t].pc # "idle" /\ tg[t].nodeId = n}
        IN  (T # {} /\ \A t \in T : tg[t].pc = "done" /\ tg[t].status = "")
            => nodes[n].status = IF Cardinality(T) % 2 = 0 THEN "online" ELSE "offline"

RECURSIVE SumSizes(_)
SumSizes(chunks) ==
    IF chunks = <<>> THEN 0 ELSE Head(chunks).size + SumSizes(Tail(chunks))

\* C13: in every state, also while uploads are running, every manifest in the
\* catalog has exactly totalChunks chunk records, with the chunk ids 0 ..
\* totalChunks - 1 in order, and the recorded chunk sizes add up to the size
\* of the file.
C13_ManifestComplete ==
    \A f \in DOMAIN catalog :
        LET m == catalog[f]
        IN  /\ Len(m.chunks) = m.totalChunks
            /\ \A k \in 1 .. Len(m.chunks) : m.chunks[k].chunkId = k - 1
            /\ SumSizes(m.chunks) = m.size
            /\ m.size = Len(up[f].buf)

\* The two-chunk manifest of file 1 is in the catalog while the upload of
\* file 2 has recorded one of its two chunks.
C13_Witness ==
    /\ 1 \in DOMAIN catalog /\ catalog[1].totalChunks = 2 /\ catalog[1].size = 3
    /\ up[2].pc = "scan" /\ up[2].man.totalChunks = 2 /\ Len(up[2].man.chunks) = 1

\* C20 as stated: the manifest of every upload that has returned success is
\* in the catalog, whatever other uploads ran at the same time.
C20_NoLostManifest ==
    \A f \in FileIds :
        up[f].pc = "done" => (f \in DOMAIN catalog /\ catalog[f].fileId = f)

\* C14: a file of L bytes is catalogued with ceil(L / CHUNK_SIZE) chunks (none
\* when L = 0); chunk i holds the bytes from i * CHUNK_SIZE up to, not
\* including, min((i + 1) * CHUNK_SIZE, L): every chunk but the last has
\* CHUNK_SIZE bytes, and the last has L mod CHUNK_SIZE bytes, or CHUNK_SIZE
\* when that is 0.
C14_Chunking ==
    \A f \in DOMAIN catalog :
        LET L == Len(up[f].buf)
            N == catalog[f].totalChunks
        IN  /\ N * CHUNK_SIZE >= L
            /\ N > 0 => (N - 1) * CHUNK_SIZE < L
            /\ Len(catalog[f].chunks) = N
            /\ \A i \in 0 .. N - 1 :
                  LET c == catalog[f].chunks[i + 1]
                  IN  /\ c.size = IF i < N - 1 THEN CHUNK_SIZE
                                  ELSE IF L % CHUNK_SIZE = 0 THEN CHUNK_SIZE
                                  ELSE L % CHUNK_SIZE
                      /\ c.hash = generateHash([j \in 1 .. c.size |->
                                                  up[f].buf[i * CHUNK_SIZE + j]])
                      /\ damage = 0 =>
                            /\ <<f, i>> \in DOMAIN store[c.node]
                            /\ store[c.node][<<f, i>>] =
                                  [j \in 1 .. c.size |-> up[f].buf[i * CHUNK_SIZE + j]]

\* A file of five bytes is catalogued with three chunks, the last of one byte.
C14_Witness ==
    /\ 1 \in DOMAIN catalog /\ up[1].buf = <<1, 0, 0, 1, 1>>
    /\ catalog[1].totalChunks = 3
    /\ catalog[1].chunks[3].size = 1 /\ catalog[1].chunks[2].size = CHUNK_SIZE

\* The payload of chunk i of file f is no longer what the upload stored.
Damaged(f, i) ==
    \/ ~Stored(f, i)
    \/ store[ChunkNode(f, i)][<<f, i>>] # chunkSlice(up[f].buf, i)

\* C15: every chunk record names one node of NODES; a chunk whose payload on
\* that node has been deleted or altered is in the missing list of every
\* reconstruct that follows, whatever the statuses and the payloads of the
\* other nodes, and that reconstruct does not succeed and writes no output.
C15_NoRedundancy ==
    /\ \A f \in DOMAIN catalog : \A k \in 1 .. Len(catalog[f].chunks) :
            catalog[f].chunks[k].node \in NodeIds
    /\ \A f \in FileIds :
            Answered(f) =>
                \A i \in ChunkIdx(f) :
                    Damaged(f, i) =>
                        /\ i \in MissingIds
                        /\ rc.error = "" /\ rc.status \in {"partial", "failed"}
                        /\ ~rc.wrote

\* With every node online, chunk 0 of a two-chunk file has been deleted and
\* the reconstruct has answered partial, naming chunk 0.
C15_Witness ==
    /\ Answered(1) /\ AllOnline(nodes) /\ catalog[1].totalChunks = 2
    /\ ~Stored(1, 0) /\ rc.status = "partial"
    /\ Len(rc.missingChunks) = 1 /\ rc.missingChunks[1].chunkId = 0

\* C16: the step of a reconstruct that classifies the outcome as partial or
\* failed leaves the reconstructed outputs as they were, and its answer
\* carries no download.
C16_NoOutputUnlessSuccess ==
    [][(rc.pc = "finish" /\ rc'.pc = "done" /\ rc'.status \in {"partial", "failed"})
       => (outputs' = outputs /\ ~rc'.wrote)]_vars

\* A reconstruct has answered partial after an earlier one succeeded: the
\* output of the earlier one is still the whole file.
C16_Witness ==
    /\ Answered(1) /\ rc.status = "partial" /\ ~rc.wrote
    /\ "a.txt" \in DOMAIN outputs /\ outputs["a.txt"] = up[1].buf
    /\ Len(up[1].buf) = 3

\* The placement the round-robin prescribes for the statuses as they are: the
\* number of offline nodes met from cursor c before the first online one, the
\* cursor before chunk k, and the node of chunk k.
Skipped(c) ==
    LET D == {d \in 0 .. Len(NODES) - 1 :
                 nodes[NODES[((c + d) % Len(NODES)) + 1]].status = "online"}
    IN  CHOOSE d \in D : \A e \in D : d <= e
RECURSIVE CursorBefore(_)
CursorBefore(k) ==
    IF k = 0 THEN 0
    ELSE CursorBefore(k - 1) + Skipped(CursorBefore(k - 1)) + 1
PrescribedNode(k) ==
    NODES[((CursorBefore(k) + Skipped(CursorBefore(k))) % Len(NODES)) + 1]
Running(f) == up[f].pc \in {"scan", "write", "count", "updRead", "updWrite", "save"}
ChunksOn(chunks, n) == Cardinality({k \in 1 .. Len(chunks) : chunks[k].node = n})

\* C17: while an upload runs with the node statuses fixed, every chunk so far
\* is on the first online node met cyclically from the cursor, the cursor
\* for the next chunk is just after the node chosen last, and a scan looks at
\* no more than Len(NODES) nodes; with every node online chunk i is on
\* NODES[i mod Len(NODES)] and the nodes' chunk numbers differ by at most
\* one.  The upload fails with 'No online nodes available' exactly when the
\* scan has found every node offline.
C17_State ==
    LET r == up[1]
    IN  Running(1) =>
          /\ r.attempt < Len(NODES)
          /\ (r.pc \in {"write", "count", "updRead", "updWrite"} \/ Len(r.man.chunks) > 0) =>
                /\ \E n \in NodeIds : nodes[n].status = "online"
                /\ \A k \in 1 .. Len(r.man.chunks) :
                      r.man.chunks[k].node = PrescribedNode(k - 1)
                /\ r.pc \in {"write", "count", "updRead", "updWrite"} =>
                      /\ r.assigned = PrescribedNode(r.i)
                      /\ r.nodeIndex = CursorBefore(r.i + 1)
                /\ (r.pc = "scan" /\ r.attempt = 0) =>
                      r.nodeIndex = CursorBefore(Len(r.man.chunks))
          /\ AllOnline(nodes) =>
                /\ \A k \in 1 .. Len(r.man.chunks) :
                      r.man.chunks[k].node = NODES[((k - 1) % Len(NODES)) + 1]
                /\ \A n, m \in NodeIds :
                      ChunksOn(r.man.chunks, n) - ChunksOn(r.man.chunks, m) <= 1

C17_RoundRobin ==
    /\ []C17_State
    /\ [][(up[1].pc = "scan" /\ up'[1] # up[1]) =>
            ((up'[1].pc = "failed" /\ up'[1].error = "No online nodes available")
             <=> (/\ up[1].attempt = Len(NODES) - 1
                  /\ \A n \in NodeIds : nodes[n].status = "offline"))]_vars

\* With node2 and node3 offline the five chunks of a file are on node1,
\* node4, node1, node4, node1.
C17_Witness ==
    /\ up[1].pc = "save" /\ Len(up[1].man.chunks) = 5
    /\ nodes["node1"].status = "online" /\ nodes["node4"].status = "online"
    /\ nodes["node2"].status = "offline" /\ nodes["node3"].status = "offline"
    /\ up[1].man.chunks[1].node = "node1" /\ up[1].man.chunks[2].node = "node4"
    /\ up[1].man.chunks[5].node = "node1"

\* C18 as stated: a node's status changes only by a toggle request.  Where
\* the toggle requests are served one at a time by one handler instance,
\* the node named by the request that was answered last has the status that
\* request gave it for as long as the answer is pending, whatever the
\* uploads do meanwhile.
C18_OperatorOnly ==
    (/\ tg[1].pc = "done" /\ tg[1].error = ""
     /\ \A t \in DOMAIN tg \ {1} : tg[t].pc = "idle")
    => nodes[tg[1].nodeId].status = tg[1].newStatus

\* The reason reconstruct gives for a chunk it cannot have.
Reason(obstacle) ==
    IF obstacle = "offline" THEN "Node offline"
    ELSE IF obstacle = "unreadable" THEN "ENOENT"
    ELSE "hash mismatch"

\* C21: a chunk counts as retrieved only if its node is online, its payload
\* was read and the payload's digest is the recorded one; every other chunk
\* is in the missing list with its own reason: 'Node offline' (the payload
\* is not read then), the read error, or the digest mismatch; no output ever
\* holds bytes other than those of the uploaded file.
C21_State ==
    /\ \A f \in FileIds :
          Answered(f) =>
            /\ rc.availableChunks =
                  Cardinality({i \in ChunkIdx(f) : Obstacle(f, i) = "none"})
            /\ Unreachable(f) \subseteq MissingIds
            /\ \A k \in 1 .. Len(rc.missingChunks) :
                  LET e == rc.missingChunks[k]
                  IN  /\ e.chunkId \in Unreachable(f)
                      /\ e.error = Reason(Obstacle(f, e.chunkId))
    /\ \A name \in DOMAIN outputs :
          \E f \in DOMAIN catalog :
              catalog[f].originalName = name /\ outputs[name] = up[f].buf

C21_Reasons ==
    /\ []C21_State
    /\ [][(/\ rc.pc = "status"
           /\ nodes[rc.info.chunks[rc.i + 1].node].status # "online")
          => /\ rc'.pc # "read"
             /\ rc'.missingChunks = Append(rc.missingChunks,
                    [chunkId |-> rc.i, node |-> rc.info.chunks[rc.i + 1].node,
                     error |-> "Node offline"])]_vars

\* Of three chunks, the first is on an offline node and the second has an
\* altered payload: two entries with different reasons, one chunk retrieved.
C21_Witness ==
    /\ Answered(1) /\ catalog[1].totalChunks = 3
    /\ Len(rc.missingChunks) = 2 /\ rc.availableChunks = 1
    /\ rc.missingChunks[1].chunkId = 0 /\ rc.missingChunks[1].error = "Node offline"
    /\ rc.missingChunks[2].chunkId = 1 /\ rc.missingChunks[2].error = "hash mismatch"

\* C22: a reconstruct of a catalogued file always ends with one of success,
\* partial and failed and never with an error; every chunk index was looked
\* at: it was either retrieved or is in the missing list.
C22_NeverAborts ==
    (rc.pc = "done" /\ rc.fileId \in DOMAIN catalog) =>
        /\ rc.error = ""
        /\ rc.status \in {"success", "partial", "failed"}
        /\ rc.availableChunks + Len(rc.missingChunks) = catalog[rc.fileId].totalChunks
        /\ MissingInOrder
        /\ MissingIds \subseteq ChunkIdx(rc.fileId)

\* The only chunk of a file has been deleted, and the answer is failed.
C22_Witness ==
    /\ Answered(1) /\ catalog[1].totalChunks = 1 /\ AllOnline(nodes)
    /\ ~Stored(1, 0)
    /\ rc.status = "failed" /\ rc.error = ""
    /\ rc.missingChunks[1].error = "ENOENT"

\* C23: when every chunk of a file has passed its own digest check, the
\* digest of the chunks put together is the file digest of the manifest; no
\* reconstruct ends with 'File hash mismatch - data corrupted'.
C23_FileHashNeverFails ==
    /\ rc.error # "File hash mismatch - data corrupted"
    /\ (rc.pc = "finish" /\ CountDefined(rc.chunks) = rc.info.totalChunks)
         => generateHash(bufferConcat(rc.chunks)) = rc.info.fileHash

\* All three chunks of a file have been read and verified.
C23_Witness ==
    /\ rc.pc = "finish" /\ rc.info.totalChunks = 3
    /\ CountDefined(rc.chunks) = 3

\* The missing list a reconstruct of file f gives in the state as it is.
RECURSIVE MissingFrom(_, _)
MissingFrom(f, i) ==
    IF i >= catalog[f].totalChunks THEN <<>>
    ELSE (IF Obstacle(f, i) = "none" THEN <<>>
          ELSE <<[chunkId |-> i, node |-> ChunkNode(f, i),
                  error |-> Reason(Obstacle(f, i))]>>)
         \o MissingFrom(f, i + 1)

\* C25: no step of a reconstruct, whatever its outcome, changes the catalog,
\* a node's status record or a chunk payload; its classification and its
\* missing list are determined by these three, so that a second reconstruct
\* with nothing changed in between gives the same answer.
C25_ReadOnly ==
    /\ [][rc' # rc => (catalog' = catalog /\ nodes' = nodes /\ store' = store)]_vars
    /\ [](\A f \in FileIds :
            Answered(f) =>
                LET missing == MissingFrom(f, 0)
                    N == catalog[f].totalChunks
                IN  /\ rc.missingChunks = missing
                    /\ rc.status = IF Len(missing) = 0 THEN "success"
                                   ELSE IF Len(missing) < N THEN "partial"
                                   ELSE "failed")
    /\ [](rc.pc = "done" /\ rc.fileId \notin DOMAIN catalog
            => rc.error = "File not found")

\* A reconstruct of a two-chunk file has answered failed, every node being
\* offline, after an earlier one had succeeded: the manifest, the payloads
\* and the earlier output are in place.
C25_Witness ==
    /\ Answered(1) /\ rc.status = "failed" /\ catalog[1].totalChunks = 2
    /\ Stored(1, 0) /\ Stored(1, 1)
    /\ "a.txt" \in DOMAIN outputs
    /\ \A n \in NodeIds : nodes[n].status = "offline"

\* C24 as stated: the bytes a download of a fileId sends are the bytes that
\* were uploaded under that fileId, also when several catalogued files have
\* the same original name.
C24_DownloadIsOwnFile ==
    dl.sent => (dl.fileId \in DOMAIN catalog /\ dl.bytes = up[dl.fileId].buf)

\* C26 as stated: the persisted status of every node is 'online' or
\* 'offline', whatever the toggle requests carried.
C26_StatusDomain ==
    \A n \in NodeIds : nodes[n].status \in {"online", "offline"}

\* C28: the event log never holds more than the cap; it holds the latest
\* min(n, cap) of the n events logged so far, the most recent first, so the
\* oldest entry is the one dropped on overflow.
C28_EventLog ==
    LET n == Len(emitted)
    IN  /\ Len(systemLogs) <= MaxSystemLogs
        /\ Len(systemLogs) = Min(n, MaxSystemLogs)
        /\ \A k \in 1 .. Len(systemLogs) : systemLogs[k] = emitted[n - k + 1]

\* Five events have been logged, the log holds three, and the first event
\* differs from all that are kept.
C28_Witness ==
    /\ Len(emitted) = MaxEvents /\ Len(systemLogs) = MaxSystemLogs
    /\ \A k \in 1 .. Len(systemLogs) : systemLogs[k] # emitted[1]
    /\ systemLogs[1].timestamp > systemLogs[3].timestamp

\* The loops of the running requests are within their bounds.
LoopsBounded ==
    /\ Running(1) =>
          /\ up[1].attempt < Len(NODES)
          /\ up[1].i = Len(up[1].man.chunks)
          /\ up[1].i <= up[1].man.totalChunks
          /\ up[1].pc = "save" <=> up[1].i = up[1].man.totalChunks
    /\ rc.pc \in {"status", "read", "finish"} =>
          /\ rc.i = Len(rc.chunks)
          /\ rc.i <= rc.info.totalChunks
          /\ rc.pc = "finish" <=> rc.i = rc.info.totalChunks

\* C27: every upload and every reconstruct that has started returns, with a
\* result or an error, however toggle requests interleave with it; a scan
\* looks at no more than Len(NODES) nodes and the chunk loops end after
\* totalChunks rounds.
C27_Termination ==
    /\ []LoopsBounded
    /\ (Running(1) ~> up[1].pc \in {"done", "failed"})
    /\ (rc.pc \in {"status", "read", "finish"} ~> rc.pc = "done")

\* The upload has returned and a reconstruct has answered partial, toggle
\* requests having changed statuses while each of them ran.
C27_Witness ==
    /\ up[1].pc = "done" /\ ~up[1].allOn
    /\ rc.pc = "done" /\ ~rc.steady /\ rc.status = "partial"

====
